---------------------------- MODULE Spec2Model ----------------------------
(***************************************************************************)
(* Model of the patch ingestion scripts of HTPSource:                      *)
(*   .github/scripts/process.py          (issue -> .htp package + catalog) *)
(*   .github/scripts/process_patch.py    (issue -> catalog, release url)   *)
(*   .github/scripts/process_metadata.py (issue -> metadata overwrite)     *)
(*                                                                         *)
(* A text is a sequence of characters; a character is a one-element token  *)
(* ("a", " ", "-"), non-ASCII characters are written by their code point   *)
(* ("U+0130").  Files are values of variables: info maps a patch directory *)
(* to the parsed info.json in it, index is the parsed index.json.          *)
(***************************************************************************)
EXTENDS Integers, Sequences, FiniteSets, TLC

VARIABLES
    index,       \* index.json: NoFile, or [formatVersion, lastUpdated, patches]
    info,        \* patches/<dir>/info.json: function from the existing dirs
    packages,    \* patches/<dir>/<file>.htp: function from the existing paths
    manifests,   \* patches/<dir>/translation-manifest.json (process_metadata)
    temp_patch,  \* the scratch directory temp_patch: NoFile or its entries
    patch_zip,   \* the downloaded patch.zip: NoFile or the archive
    clock,       \* the time, one tick per run
    last,        \* the run that ended last: script, input, exit
    file_manifest, \* the fileManifest the run that ended last built
    runs,        \* the runs under way when runs are taken step by step
    slug_in,     \* the text handed to a slug function
    slug_fn,     \* the slug function applied last ("none" before any)
    slug_out     \* what it returned

vars == <<index, info, packages, manifests, temp_patch, patch_zip, clock, last,
          file_manifest, runs, slug_in, slug_fn, slug_out>>

diskVars == <<index, info, packages, manifests, temp_patch, patch_zip, clock, last,
              file_manifest, runs>>

slugVars == <<slug_in, slug_fn, slug_out>>

\* Bounds of the model.
MaxLen == 3
MaxRuns == 3
MaxStepRuns == 2

\* a path at which nothing exists, and a directory or archive that does
NoFile == [exists |-> FALSE]

\* the slots for runs taken step by step, and a slot in which none is under way
RunIds == {1, 2}
IdleRun ==
    [pc |-> "idle", script |-> "none", input |-> NoFile, info_data |-> NoFile,
     index_data |-> NoFile, saw_info |-> NoFile, saw_index |-> NoFile,
     replaced_info |-> NoFile, replaced_index |-> NoFile]
Present(entries) == [exists |-> TRUE, entries |-> entries]

(***************************************************************************)
(* Characters, as Python's re and str see them.                            *)
(***************************************************************************)
LowerLetters == {"a", "b", "c", "i", "m", "p", "q", "t", "x"}
UpperLetters == {"A", "B", "P", "Q", "T", "X", "C", "M"}
Digits == {"0", "1", "2"}
\* U+6C49 is a CJK letter, U+0130 is LATIN CAPITAL LETTER I WITH DOT ABOVE,
\* U+0307 is COMBINING DOT ABOVE (category Mn: not alphanumeric).
OtherLetters == {"U+6C49", "U+0130"}

\* \w of a str pattern: alphanumeric (str.isalnum) or the underscore
IsWord(c) == c \in LowerLetters \cup UpperLetters \cup Digits \cup OtherLetters \cup {"_"}

\* \s of a str pattern, and what str.strip() strips
Spaces == {" ", "\t"}
IsSpace(c) == c \in Spaces

\* str.lower() of one character; U+0130 lowers to two characters
LowerChar(c) ==
    CASE c = "A" -> <<"a">> [] c = "B" -> <<"b">> [] c = "P" -> <<"p">>
      [] c = "Q" -> <<"q">> [] c = "T" -> <<"t">> [] c = "X" -> <<"x">>
      [] c = "C" -> <<"c">> [] c = "M" -> <<"m">>
      [] c = "U+0130" -> <<"i", "U+0307">>
      [] OTHER -> <<c>>

RECURSIVE Lower(_)
\* str.lower()
Lower(text) ==
    IF text = <<>> THEN <<>> ELSE LowerChar(Head(text)) \o Lower(Tail(text))

RECURSIVE LStrip(_)
LStrip(text) ==
    IF text # <<>> /\ IsSpace(Head(text)) THEN LStrip(Tail(text)) ELSE text

RECURSIVE RStrip(_)
RStrip(text) ==
    IF text # <<>> /\ IsSpace(text[Len(text)])
    THEN RStrip(SubSeq(text, 1, Len(text) - 1))
    ELSE text

\* str.strip()
Strip(text) == RStrip(LStrip(text))

\* re.sub(r'[^\w\s-]', '', text)
RemoveSpecial(text) ==
    SelectSeq(text, LAMBDA c : IsWord(c) \/ IsSpace(c) \/ c = "-")

RECURSIVE SubRuns(_, _, _)
\* re.sub(r'[<class>]+', '-', text): every maximal run of characters of the
\* class becomes one hyphen; inRun says the previous character was in a run.
SubRuns(text, class, inRun) ==
    IF text = <<>> THEN <<>>
    ELSE IF Head(text) \in class
         THEN (IF inRun THEN <<>> ELSE <<"-">>) \o SubRuns(Tail(text), class, TRUE)
         ELSE <<Head(text)>> \o SubRuns(Tail(text), class, FALSE)

\* [\s_] of create_slug and [\s-] of slugify
SpaceOrUnderscore == Spaces \cup {"_"}
SpaceOrHyphen == Spaces \cup {"-"}

\* process.py and process_metadata.py
create_slug(text) ==
    Lower(Strip(SubRuns(RemoveSpecial(text), SpaceOrUnderscore, FALSE)))

\* process_patch.py
slugify(text) ==
    SubRuns(Lower(Strip(RemoveSpecial(text))), SpaceOrHyphen, FALSE)

(***************************************************************************)
(* The slug functions on their own: every text of at most MaxLen           *)
(* characters over SlugAlphabet, and the outputs fed back in.              *)
(***************************************************************************)
SlugAlphabet == {"a", "B", "1", " ", "-", "_", "!", "U+0130", "U+6C49"}

RECURSIVE TextsOfLen(_)
TextsOfLen(n) ==
    IF n = 0 THEN {<<>>}
    ELSE {<<c>> \o t : c \in SlugAlphabet, t \in TextsOfLen(n - 1)}

Texts == UNION {TextsOfLen(n) : n \in 0..MaxLen}

CallCreateSlug ==
    /\ slug_fn' = "create_slug"
    /\ slug_out' = create_slug(slug_in)
    /\ UNCHANGED <<slug_in, diskVars>>

CallSlugify ==
    /\ slug_fn' = "slugify"
    /\ slug_out' = slugify(slug_in)
    /\ UNCHANGED <<slug_in, diskVars>>

\* the caller hands a slug back to a slug function
FeedBack ==
    /\ slug_fn # "none"
    /\ slug_in' = slug_out
    /\ slug_fn' = "none"
    /\ slug_out' = <<>>
    /\ UNCHANGED diskVars

DiskInit ==
    /\ index = NoFile
    /\ info = <<>>
    /\ packages = <<>>
    /\ manifests = <<>>
    /\ temp_patch = NoFile
    /\ patch_zip = NoFile
    /\ clock = 0
    /\ file_manifest = {}
    /\ runs = [r \in RunIds |-> IdleRun]
    /\ last = [script |-> "none", input |-> NoFile, exit |-> 0,
               prev |-> [script |-> "none", input |-> NoFile, exit |-> 0]]

SlugInit ==
    /\ slug_in \in Texts
    /\ slug_fn = "none"
    /\ slug_out = <<>>
    /\ DiskInit

SlugNext == CallCreateSlug \/ CallSlugify \/ FeedBack

SlugSpec == SlugInit /\ [][SlugNext]_vars

(***************************************************************************)
(* Submissions.  A submission is the parsed issue form and the attached    *)
(* archive; an archive is a set of entries [name, isDir, bytes], a name    *)
(* being the sequence of its path components ("overrides/" is the          *)
(* directory entry <<"overrides">>).                                       *)
(***************************************************************************)
TargetRef(type, name, version) == [type |-> type, name |-> name, version |-> version]

TargetsB == <<TargetRef(<<"M">>, <<"B">>, "1.0")>>
\* one target key listed twice: two versions, the type in two letter cases
TargetsAA == <<TargetRef(<<"C">>, <<"A">>, "1.0"), TargetRef(<<"c">>, <<"A">>, "2.0")>>

\* who submits what: two patches, one of them with its author written two ways
Patches ==
    { [name |-> <<"P">>, author |-> <<"T">>],
      [name |-> <<"P">>, author |-> <<"t">>],
      [name |-> <<"Q">>, author |-> <<"T">>] }

\* a release of a patch: its version, description and targets
Releases ==
    { [version |-> <<"1", ".", "0">>, description |-> "d1", targets |-> TargetsAA],
      [version |-> <<"1", ".", "1">>, description |-> "d2", targets |-> TargetsAA],
      [version |-> <<"1", ".", "1">>, description |-> "d2", targets |-> TargetsB] }

DirEntry(name) == [name |-> name, isDir |-> TRUE, bytes |-> ""]
FileEntry(name, bytes) == [name |-> name, isDir |-> FALSE, bytes |-> bytes]

GoodArchive ==
    {DirEntry(<<"overrides">>), FileEntry(<<"overrides", "mods", "foo.jar">>, "b1")}

\* overrides/ and a stray file; no overrides; overrides is a file
StrayArchive ==
    {FileEntry(<<"overrides", "mods", "foo.jar">>, "b1"), FileEntry(<<"README.md">>, "b2")}
MissingArchive == {FileEntry(<<"README.md">>, "b2")}
FileNamedOverrides == {FileEntry(<<"overrides">>, "b3")}

BadArchives == {StrayArchive, MissingArchive, FileNamedOverrides}

\* an attachment that is no zip file: there is no entry list to read from it
NotAZip == {FileEntry(<<"?">>, "not a zip")}
IsZip(archive) == archive # NotAZip

\* overrides/ with no file below it, with an empty directory only, with two
\* files, and the two files with the bytes of one changed
EmptyTree == {DirEntry(<<"overrides">>)}
EmptyDirTree == {DirEntry(<<"overrides">>), DirEntry(<<"overrides", "mods">>)}
TwoFiles ==
    {DirEntry(<<"overrides">>), FileEntry(<<"overrides", "mods", "foo.jar">>, "b1"),
     FileEntry(<<"overrides", "config", "a.cfg">>, "b4")}
TwoFilesChanged ==
    {DirEntry(<<"overrides">>), FileEntry(<<"overrides", "mods", "foo.jar">>, "b5"),
     FileEntry(<<"overrides", "config", "a.cfg">>, "b4")}

Submission(p, r, z) ==
    [patchName |-> p.name, patchAuthor |-> p.author, patchVersion |-> r.version,
     description |-> r.description, changelog |-> "log", translationType |-> "machine",
     targets |-> r.targets, archive |-> z]

BaseSubmission ==
    Submission([name |-> <<"P">>, author |-> <<"T">>],
               [version |-> <<"1", ".", "0">>, description |-> "d1", targets |-> TargetsAA],
               GoodArchive)

Submissions ==
    { Submission(p, r, GoodArchive) : p \in Patches, r \in Releases }
    \cup { [BaseSubmission EXCEPT !.archive = z] : z \in BadArchives }

(***************************************************************************)
(* Helpers shared by the three scripts.                                    *)
(***************************************************************************)
\* hashlib.sha1(...).hexdigest(): a digest stands for the bytes it is of
calculate_sha1(bytes) == <<"sha1", bytes>>

\* f"{author_slug}/{patch_slug}"
PatchId(author_slug, patch_slug) == author_slug \o <<"/">> \o patch_slug

\* the string os.path.join('patches', author_slug, patch_slug), without the
\* leading patches/: an empty component is skipped, an empty last component
\* leaves a trailing separator
JoinPath(author_slug, patch_slug) ==
    IF patch_slug = <<>>
    THEN IF author_slug = <<>> THEN <<>> ELSE author_slug \o <<"/">>
    ELSE IF author_slug = <<>> THEN patch_slug
         ELSE author_slug \o <<"/">> \o patch_slug

RECURSIVE Components(_, _)
\* the non-empty components of a path, cur being the component being read
Components(path, cur) ==
    IF path = <<>> THEN (IF cur = <<>> THEN <<>> ELSE <<cur>>)
    ELSE IF Head(path) = "/"
         THEN (IF cur = <<>> THEN <<>> ELSE <<cur>>) \o Components(Tail(path), <<>>)
         ELSE Components(Tail(path), Append(cur, Head(path)))

RECURSIVE JoinComponents(_)
JoinComponents(comps) ==
    IF comps = <<>> THEN <<>>
    ELSE IF Len(comps) = 1 THEN comps[1]
         ELSE comps[1] \o <<"/">> \o JoinComponents(Tail(comps))

\* the directory below patches/ that a path string names to the file system
DirNamed(path) == JoinComponents(Components(path, <<>>))

\* the directory os.makedirs(os.path.join('patches', author_slug, patch_slug))
\* makes, below patches/
PatchDir(author_slug, patch_slug) == DirNamed(JoinPath(author_slug, patch_slug))

\* f"./patches/{...}/info.json" around a directory string
InfoPath(dirText) == <<"./patches/">> \o dirText \o <<"/info.json">>

\* f"{modpack['type'].lower()}:{modpack['name']}"
ModpackKey(modpack) == Lower(modpack.type) \o <<":">> \o modpack.name

\* os.walk(overrides_path): the regular files below <root>/overrides
OverrideFiles(tree) ==
    {e \in tree : ~e.isDir /\ Len(e.name) > 1 /\ e.name[1] = "overrides"}

\* FileRecord with the path below temp_patch as targetPath
FileRecord_FullTargetPath(e) ==
    [operation |-> "overwrite", path |-> Tail(e.name), targetPath |-> e.name,
     patchedSha1 |-> calculate_sha1(e.bytes)]

\* one record of fileManifest
FileRecord(e) ==
    [operation |-> "overwrite", path |-> Tail(e.name), targetPath |-> Tail(e.name),
     patchedSha1 |-> calculate_sha1(e.bytes)]

FileManifest(tree) == {FileRecord(e) : e \in OverrideFiles(tree)}

\* if modpack_key not in index_data['patches']: index_data['patches'][modpack_key] = []
EnsureKey(patches, key) ==
    IF key \in DOMAIN patches THEN patches ELSE patches @@ (key :> <<>>)

HasPatch(list, patch_id) == \E i \in 1..Len(list) : list[i].patchId = patch_id

FirstIndex(list, patch_id) ==
    CHOOSE i \in 1..Len(list) :
        /\ list[i].patchId = patch_id
        /\ \A j \in 1..(i - 1) : list[j].patchId # patch_id

\* the index.json a run starts from
LoadIndex ==
    IF index = NoFile
    THEN [formatVersion |-> 1, lastUpdated |-> "", patches |-> <<>>]
    ELSE index

Now == clock + 1

\* the record of a run that ends: what ran, on what, its exit status, and the
\* same three of the run before it
Ended(script, input, exit) ==
    [script |-> script, input |-> input, exit |-> exit,
     prev |-> [script |-> last.script, input |-> last.input, exit |-> last.exit]]

(***************************************************************************)
(* process.py                                                              *)
(***************************************************************************)
\* any(name.startswith('overrides/') for name in zip_ref.namelist())
ProcessArchiveAccepted(archive) ==
    \E e \in archive : e.name[1] = "overrides" /\ (Len(e.name) > 1 \/ e.isDir)

RECURSIVE LStripV(_)
\* data['patchVersion'].lstrip('v')
LStripV(text) ==
    IF text # <<>> /\ Head(text) = "v" THEN LStripV(Tail(text)) ELSE text

\* os.path.join(patch_dir, f"{patch_slug}-{version.lstrip('v')}.htp")
HtpPath(sub) ==
    <<PatchDir(create_slug(sub.patchAuthor), create_slug(sub.patchName)),
      create_slug(sub.patchName) \o <<"-">> \o LStripV(sub.patchVersion) \o <<".htp">>>>

ProcessManifest(sub, tree) ==
    [formatVersion |-> 1, patchName |-> sub.patchName, patchVersion |-> sub.patchVersion,
     patchAuthor |-> sub.patchAuthor, description |-> sub.description,
     translationType |-> "manual", supportedModpacks |-> sub.targets,
     fileManifest |-> FileManifest(tree),
     updateInfoUrl |-> InfoPath(JoinPath(create_slug(sub.patchAuthor),
                                         create_slug(sub.patchName)))]

RECURSIVE WalkOrder(_)
\* the files in the order os.walk yields them: the directory's order, one
\* order here
WalkOrder(files) ==
    IF files = {} THEN <<>>
    ELSE LET e == CHOOSE x \in files : TRUE
         IN  <<e>> \o WalkOrder(files \ {e})

\* ProcessHtp walking temp_patch instead of temp_patch/overrides
ProcessHtp_WalkTempDir(sub, tree) ==
    LET walked == WalkOrder({e \in tree : ~e.isDir})
    IN  <<[arcname |-> <<"translation-manifest.json">>,
           json |-> ProcessManifest(sub, tree)]>>
        \o [i \in 1..Len(walked) |->
                [arcname |-> walked[i].name, bytes |-> walked[i].bytes]]

\* the entries of the .htp written, in the order they are written: the
\* manifest file, then every file below temp_patch/overrides under its path
\* relative to temp_patch
ProcessHtp(sub, tree) ==
    LET walked == WalkOrder(OverrideFiles(tree))
    IN  <<[arcname |-> <<"translation-manifest.json">>,
           json |-> ProcessManifest(sub, tree)]>>
        \o [i \in 1..Len(walked) |->
                [arcname |-> walked[i].name, bytes |-> walked[i].bytes]]

ProcessVersionEntry(sub, tree) ==
    [patchVersion |-> sub.patchVersion, releaseDate |-> <<Now, "+00:00">>,
     changelog |-> sub.changelog, supportedModpackVersions |-> sub.targets,
     downloads |-> <<[type |-> "direct", name |-> "GitHub Raw", url |-> HtpPath(sub),
                      sha1 |-> calculate_sha1(ProcessHtp(sub, tree))]>>]

\* ProcessInfo with the new entry appended instead of inserted at 0
ProcessInfo_AppendLast(sub, tree) ==
    LET author_slug == create_slug(sub.patchAuthor)
        patch_slug == create_slug(sub.patchName)
        dir == PatchDir(author_slug, patch_slug)
    IN  IF dir \in DOMAIN info
        THEN [info[dir] EXCEPT !.versions = @ \o <<ProcessVersionEntry(sub, tree)>>]
        ELSE [formatVersion |-> 1, patchId |-> PatchId(author_slug, patch_slug),
              patchName |-> sub.patchName, author |-> sub.patchAuthor,
              description |-> sub.description,
              versions |-> <<ProcessVersionEntry(sub, tree)>>]

\* step 6: the info.json written
ProcessInfo(sub, tree) ==
    LET author_slug == create_slug(sub.patchAuthor)
        patch_slug == create_slug(sub.patchName)
        dir == PatchDir(author_slug, patch_slug)
    IN  IF dir \in DOMAIN info
        THEN [info[dir] EXCEPT !.versions = <<ProcessVersionEntry(sub, tree)>> \o @]
        ELSE [formatVersion |-> 1, patchId |-> PatchId(author_slug, patch_slug),
              patchName |-> sub.patchName, author |-> sub.patchAuthor,
              description |-> sub.description,
              versions |-> <<ProcessVersionEntry(sub, tree)>>]

ProcessSummary(sub) ==
    [infoPath |-> InfoPath(JoinPath(create_slug(sub.patchAuthor), create_slug(sub.patchName))),
     patchId |-> PatchId(create_slug(sub.patchAuthor), create_slug(sub.patchName)),
     patchName |-> sub.patchName, author |-> sub.patchAuthor,
     description |-> sub.description, latestVersion |-> sub.patchVersion,
     translationType |-> "manual", availableDownloadTypes |-> <<"direct">>]

\* ProcessMergeOne without the summary_exists test
ProcessMergeOne_NoLookup(sub, patches, modpack) ==
    LET key == ModpackKey(modpack)
        p == EnsureKey(patches, key)
    IN  [p EXCEPT ![key] = Append(@, ProcessSummary(sub))]

\* the body of "for modpack in supported_modpacks_list"
ProcessMergeOne(sub, patches, modpack) ==
    LET key == ModpackKey(modpack)
        p == EnsureKey(patches, key)
    IN  IF HasPatch(p[key], ProcessSummary(sub).patchId)
        THEN p
        ELSE [p EXCEPT ![key] = Append(@, ProcessSummary(sub))]

RECURSIVE ProcessMerge(_, _, _)
\* for modpack in supported_modpacks_list
ProcessMerge(sub, patches, modpacks) ==
    IF modpacks = <<>> THEN patches
    ELSE ProcessMerge(sub, ProcessMergeOne(sub, patches, Head(modpacks)), Tail(modpacks))

\* step 7: the index.json written
ProcessIndex(sub) ==
    [LoadIndex EXCEPT
        !.lastUpdated = <<Now, "+00:00">>,
        !.patches = ProcessMerge(sub, @, sub.targets)]

\* main() of process.py on a complete issue form whose attachment downloads
Process(sub) ==
    /\ clock < MaxRuns
    /\ clock' = Now
    /\ IF ~IsZip(sub.archive) \/ ~ProcessArchiveAccepted(sub.archive)
       THEN /\ patch_zip' = Present(sub.archive)
            /\ temp_patch' = Present({})
            /\ file_manifest' = {}
            /\ last' = Ended("process", sub, 1)
            /\ UNCHANGED <<index, info, packages, manifests>>
       ELSE /\ packages' = (HtpPath(sub) :> ProcessHtp(sub, sub.archive)) @@ packages
            /\ info' = (HtpPath(sub)[1] :> ProcessInfo(sub, sub.archive)) @@ info
            /\ index' = ProcessIndex(sub)
            /\ temp_patch' = NoFile
            /\ patch_zip' = NoFile
            /\ file_manifest' = ProcessManifest(sub, sub.archive).fileManifest
            /\ last' = Ended("process", sub, 0)
            /\ UNCHANGED manifests
    /\ UNCHANGED <<runs, slugVars>>

(***************************************************************************)
(* process_patch.py                                                        *)
(***************************************************************************)
\* root_folders == {'overrides'}, root_folders being the first path
\* component of every name of the archive
PatchArchiveAccepted(archive) == {e.name[1] : e \in archive} = {"overrides"}

\* generate_file_manifest, after the archive is accepted
generate_file_manifest(archive) == FileManifest(archive)

PatchVersionEntry(sub) ==
    [patchVersion |-> sub.patchVersion, releaseDate |-> <<Now, "Z">>,
     changelog |-> sub.changelog, supportedModpackVersions |-> sub.targets,
     downloads |-> <<[type |-> "direct", name |-> "GitHub Release",
                      url |-> <<slugify(sub.patchName), sub.patchVersion>>,
                      sha1 |-> <<>>]>>]

\* PatchInfo with the header refreshed from every submission
PatchInfo_RefreshHeader(sub) ==
    LET author_slug == slugify(sub.patchAuthor)
        patch_slug == slugify(sub.patchName)
        dir == PatchDir(author_slug, patch_slug)
        fresh ==
            [formatVersion |-> 1, patchId |-> PatchId(author_slug, patch_slug),
             patchName |-> sub.patchName, author |-> sub.patchAuthor,
             description |-> sub.description, website |-> "",
             versions |-> IF dir \in DOMAIN info THEN info[dir].versions ELSE <<>>]
    IN  [fresh EXCEPT !.versions = <<PatchVersionEntry(sub)>> \o @]

\* step 6: the info.json written
PatchInfo(sub) ==
    LET author_slug == slugify(sub.patchAuthor)
        patch_slug == slugify(sub.patchName)
        dir == PatchDir(author_slug, patch_slug)
        info_data ==
            IF dir \in DOMAIN info
            THEN info[dir]
            ELSE [formatVersion |-> 1, patchId |-> PatchId(author_slug, patch_slug),
                  patchName |-> sub.patchName, author |-> sub.patchAuthor,
                  description |-> sub.description, website |-> "",
                  versions |-> <<>>]
    IN  [info_data EXCEPT !.versions = <<PatchVersionEntry(sub)>> \o @]

PatchSummary(sub) ==
    [infoPath |-> InfoPath(slugify(sub.patchAuthor) \o <<"/">> \o slugify(sub.patchName)),
     patchId |-> PatchId(slugify(sub.patchAuthor), slugify(sub.patchName)),
     patchName |-> sub.patchName, author |-> sub.patchAuthor,
     description |-> sub.description, latestVersion |-> sub.patchVersion,
     translationType |-> sub.translationType, availableDownloadTypes |-> <<"direct">>]

\* PatchMergeOne appending a summary also when one is found
PatchMergeOne_Duplicate(sub, patches, modpack) ==
    LET key == ModpackKey(modpack)
        p == EnsureKey(patches, key)
    IN  [p EXCEPT ![key] = Append(@, PatchSummary(sub))]

\* the body of "for modpack in data['supportedModpacksList']"
PatchMergeOne(sub, patches, modpack) ==
    LET key == ModpackKey(modpack)
        p == EnsureKey(patches, key)
        patch_id == PatchSummary(sub).patchId
    IN  IF HasPatch(p[key], patch_id)
        THEN [p EXCEPT ![key][FirstIndex(p[key], patch_id)] =
                [@ EXCEPT !.latestVersion = sub.patchVersion,
                          !.description = sub.description]]
        ELSE [p EXCEPT ![key] = Append(@, PatchSummary(sub))]

RECURSIVE PatchMerge(_, _, _)
\* for modpack in data["supportedModpacksList"]
PatchMerge(sub, patches, modpacks) ==
    IF modpacks = <<>> THEN patches
    ELSE PatchMerge(sub, PatchMergeOne(sub, patches, Head(modpacks)), Tail(modpacks))

\* step 7: the index.json written
PatchIndex(sub) ==
    [LoadIndex EXCEPT
        !.lastUpdated = <<Now, "Z">>,
        !.patches = PatchMerge(sub, @, sub.targets)]

\* main() of process_patch.py on an issue whose attachment downloads
ProcessPatch(sub) ==
    /\ clock < MaxRuns
    /\ clock' = Now
    /\ patch_zip' = Present(sub.archive)
    /\ IF ~IsZip(sub.archive) \/ ~PatchArchiveAccepted(sub.archive)
       THEN /\ temp_patch' = Present({})
            /\ file_manifest' = {}
            /\ last' = Ended("process_patch", sub, 1)
            /\ UNCHANGED <<index, info>>
       ELSE /\ temp_patch' = Present(sub.archive)
            /\ info' = (PatchDir(slugify(sub.patchAuthor), slugify(sub.patchName))
                            :> PatchInfo(sub)) @@ info
            /\ index' = PatchIndex(sub)
            /\ file_manifest' = generate_file_manifest(sub.archive)
            /\ last' = Ended("process_patch", sub, 0)
    /\ UNCHANGED <<packages, manifests, runs, slugVars>>

(***************************************************************************)
(* process_metadata.py                                                     *)
(***************************************************************************)
\* dict.get(key, default)
Get(dict, key, default) == IF key \in DOMAIN dict THEN dict[key] ELSE default

MetaEntry(version, targets) ==
    [patchVersion |-> version, releaseDate |-> <<0, "Z">>, changelog |-> "log",
     supportedModpackVersions |-> targets, downloads |-> <<>>]

\* the info.json contents an issue may carry: a corrected header with the
\* history of one or two versions, and one without patchId
InfoContents ==
    { [formatVersion |-> 1, patchId |-> <<"t", "/", "p">>, patchName |-> <<"P">>,
       author |-> <<"T", "2">>, description |-> "d3", versions |-> vs] :
         vs \in { <<MetaEntry(<<"1", ".", "1">>, TargetsAA)>>,
                  <<MetaEntry(<<"1", ".", "1">>, TargetsB),
                    MetaEntry(<<"1", ".", "0">>, TargetsAA)>> } }
    \cup { [formatVersion |-> 1, patchName |-> <<"P">>, author |-> <<"T">>,
            description |-> "d3", versions |-> <<MetaEntry(<<"1", ".", "0">>, TargetsB)>>] }

MetaSubmissions ==
    { [issue_author |-> <<"T">>, patchName |-> n, infoJsonContent |-> c,
       manifestJsonContent |-> [formatVersion |-> 1]] :
         n \in {<<"P">>}, c \in InfoContents }

\* os.path.join('patches', issue_author.lower(), create_slug(patchName))
MetaDir(sub) == PatchDir(Lower(sub.issue_author), create_slug(sub.patchName))

\* info_data.get('versions', [{}])[0]
LatestVersionInfo(info_data) == Get(info_data, "versions", <<<<>>>>)[1]

MetaSummary(sub) ==
    LET info_data == sub.infoJsonContent
    IN  [infoPath |-> InfoPath(JoinPath(Lower(sub.issue_author), create_slug(sub.patchName))),
         patchId |-> info_data.patchId,
         patchName |-> Get(info_data, "patchName", sub.patchName),
         author |-> Get(info_data, "author", <<"N", "/", "A">>),
         description |-> Get(info_data, "description", ""),
         latestVersion |-> Get(LatestVersionInfo(info_data), "patchVersion", <<"N", "/", "A">>),
         translationType |-> "manual", availableDownloadTypes |-> <<"direct">>]

\* MetaMergeOne moving the summary it updates to the front of its list
MetaMergeOne_MoveToFront(sub, patches, modpack) ==
    LET key == Lower(Get(modpack, "type", <<>>)) \o <<":">> \o Get(modpack, "name", <<>>)
        p == EnsureKey(patches, key)
        new == MetaSummary(sub)
        i == FirstIndex(p[key], new.patchId)
    IN  IF HasPatch(p[key], new.patchId)
        THEN [p EXCEPT ![key] =
                <<[@[i] EXCEPT !.latestVersion = new.latestVersion,
                               !.author = new.author,
                               !.description = new.description]>>
                \o SubSeq(@, 1, i - 1) \o SubSeq(@, i + 1, Len(@))]
        ELSE [p EXCEPT ![key] = Append(@, new)]

\* the body of "for modpack in supported_modpacks"; the guard
\* "not modpack_key or ':' in modpack_key == 1" is never true of a str key
MetaMergeOne(sub, patches, modpack) ==
    LET key == Lower(Get(modpack, "type", <<>>)) \o <<":">> \o Get(modpack, "name", <<>>)
        p == EnsureKey(patches, key)
        new == MetaSummary(sub)
    IN  IF HasPatch(p[key], new.patchId)
        THEN [p EXCEPT ![key][FirstIndex(p[key], new.patchId)] =
                [@ EXCEPT !.latestVersion = new.latestVersion,
                          !.author = new.author,
                          !.description = new.description]]
        ELSE [p EXCEPT ![key] = Append(@, new)]

RECURSIVE MetaMerge(_, _, _)
\* for modpack in supported_modpacks
MetaMerge(sub, patches, modpacks) ==
    IF modpacks = <<>> THEN patches
    ELSE MetaMerge(sub, MetaMergeOne(sub, patches, Head(modpacks)), Tail(modpacks))

\* step 5: the index.json written
MetaIndex(sub) ==
    [LoadIndex EXCEPT
        !.lastUpdated = <<Now, "+00:00">>,
        !.patches = MetaMerge(sub, @, Get(LatestVersionInfo(sub.infoJsonContent),
                                          "supportedModpackVersions", <<>>))]

\* main() of process_metadata.py on a complete form with valid JSON
ProcessMetadata(sub) ==
    /\ clock < MaxRuns
    /\ clock' = Now
    /\ info' = (MetaDir(sub) :> sub.infoJsonContent) @@ info
    /\ manifests' = (MetaDir(sub) :> sub.manifestJsonContent) @@ manifests
    /\ IF "patchId" \notin DOMAIN sub.infoJsonContent
       THEN /\ last' = Ended("process_metadata", sub, 1)
            /\ UNCHANGED index
       ELSE /\ index' = MetaIndex(sub)
            /\ last' = Ended("process_metadata", sub, 0)
    /\ UNCHANGED <<packages, temp_patch, patch_zip, file_manifest, runs, slugVars>>

Init ==
    /\ DiskInit
    /\ slug_in = <<>>
    /\ slug_fn = "none"
    /\ slug_out = <<>>

Next ==
    \/ \E sub \in Submissions : Process(sub)
    \/ \E sub \in Submissions : ProcessPatch(sub)
    \/ \E sub \in MetaSubmissions : ProcessMetadata(sub)

Spec == Init /\ [][Next]_vars

(***************************************************************************)
(* The same runs on the submissions at the edges of the input space:       *)
(* archives without files, with several files or that are no zip file,     *)
(* names without a letter or digit, and a metadata issue opened by another *)
(* user than the record it carries names.                                  *)
(***************************************************************************)
EdgeArchives ==
    {GoodArchive, StrayArchive, EmptyTree, EmptyDirTree, TwoFiles, TwoFilesChanged,
     NotAZip}

EdgeSubmissions ==
    { [BaseSubmission EXCEPT !.archive = z] : z \in EdgeArchives }
    \cup { [BaseSubmission EXCEPT !.patchAuthor = <<"!">>],
            [BaseSubmission EXCEPT !.patchName = <<"!", "!">>] }

\* a record whose latest version lists a target without type and name and
\* one with an empty name
BlankTargetContent ==
    [formatVersion |-> 1, patchId |-> <<"t", "/", "p">>, patchName |-> <<"P">>,
     author |-> <<"T">>, description |-> "d3",
     versions |-> <<[patchVersion |-> <<"1", ".", "1">>, releaseDate |-> <<0, "Z">>,
                     changelog |-> "log",
                     supportedModpackVersions |->
                        <<[version |-> "1.0"], TargetRef(<<"C">>, <<>>, "1.0")>>,
                     downloads |-> <<>>]>>]

EdgeMetaSubmissions ==
    { [issue_author |-> a, patchName |-> <<"P">>, infoJsonContent |-> c,
       manifestJsonContent |-> [formatVersion |-> 1]] :
         a \in {<<"T">>, <<"U">>},
         c \in {i \in InfoContents : "patchId" \in DOMAIN i /\ Len(i.versions) = 1} }
    \cup { [issue_author |-> <<"T">>, patchName |-> <<"P">>,
             infoJsonContent |-> BlankTargetContent,
             manifestJsonContent |-> [formatVersion |-> 1]] }

EdgeNext ==
    \/ \E sub \in EdgeSubmissions : Process(sub)
    \/ \E sub \in EdgeSubmissions : ProcessPatch(sub)
    \/ \E sub \in EdgeMetaSubmissions : ProcessMetadata(sub)

EdgeSpec == Init /\ [][EdgeNext]_vars

(***************************************************************************)
(* The ingestion scripts step by step.  A run reads info.json, writes it,  *)
(* reads index.json and writes it; open(path, 'w') empties the file and    *)
(* json.dump then streams the value into it, so between the two the file   *)
(* holds a prefix of the new value.  Up to two runs are under way at a     *)
(* time on the same files, and a run can be stopped between any two steps. *)
(***************************************************************************)
\* a file emptied by open(path, 'w') into which json.dump has not finished
Partial == [exists |-> TRUE, partial |-> TRUE]

\* two patches for the same target key
StepSubmissions ==
    { Submission([name |-> <<"P">>, author |-> <<"T">>],
                 [version |-> <<"1", ".", "0">>, description |-> "d1", targets |-> TargetsAA],
                 GoodArchive),
      Submission([name |-> <<"Q">>, author |-> <<"T">>],
                 [version |-> <<"1", ".", "0">>, description |-> "d1", targets |-> TargetsAA],
                 GoodArchive) }

\* the directory of the run in slot r
SlotDir(r) ==
    IF runs[r].script = "process"
    THEN PatchDir(create_slug(runs[r].input.patchAuthor), create_slug(runs[r].input.patchName))
    ELSE PatchDir(slugify(runs[r].input.patchAuthor), slugify(runs[r].input.patchName))

Free(r) == runs[r].pc \in {"idle", "done", "failed", "killed"}

\* a run starts in the first free slot: download, validation, extraction,
\* manifest, and in process.py the package
StartRun(r, script, sub) ==
    /\ Free(r)
    /\ \A q \in RunIds : q < r => ~Free(q)
    /\ clock < MaxStepRuns
    /\ clock' = Now
    /\ patch_zip' = Present(sub.archive)
    /\ temp_patch' = Present(sub.archive)
    /\ file_manifest' = FileManifest(sub.archive)
    /\ packages' = IF script = "process"
                   THEN (HtpPath(sub) :> ProcessHtp(sub, sub.archive)) @@ packages
                   ELSE packages
    /\ runs' = [runs EXCEPT ![r] =
                    [IdleRun EXCEPT !.pc = "read_info", !.script = script, !.input = sub]]
    /\ UNCHANGED <<index, info, manifests, last, slugVars>>

\* if os.path.exists(info_path): json.load(f), and the new entry inserted;
\* json.load raises on a file that holds a prefix of a value
ReadInfo(r) ==
    /\ runs[r].pc = "read_info"
    /\ IF SlotDir(r) \in DOMAIN info /\ info[SlotDir(r)] = Partial
       THEN /\ runs' = [runs EXCEPT ![r].pc = "failed"]
            /\ last' = Ended(runs[r].script, runs[r].input, 1)
       ELSE /\ runs' = [runs EXCEPT
                            ![r].pc = "open_info",
                            ![r].saw_info =
                                IF SlotDir(r) \in DOMAIN info THEN info[SlotDir(r)] ELSE NoFile,
                            ![r].info_data =
                                IF runs[r].script = "process"
                                THEN ProcessInfo(runs[r].input, runs[r].input.archive)
                                ELSE PatchInfo(runs[r].input)]
            /\ UNCHANGED last
    /\ UNCHANGED <<index, info, packages, manifests, temp_patch, patch_zip, clock,
                   file_manifest, slugVars>>

\* with open(info_path, 'w', encoding='utf-8') as f:
OpenInfo(r) ==
    /\ runs[r].pc = "open_info"
    /\ info' = (SlotDir(r) :> Partial) @@ info
    /\ runs' = [runs EXCEPT
                    ![r].pc = "dump_info",
                    ![r].replaced_info =
                        IF SlotDir(r) \in DOMAIN info THEN info[SlotDir(r)] ELSE NoFile]
    /\ UNCHANGED <<index, packages, manifests, temp_patch, patch_zip, clock, last,
                   file_manifest, slugVars>>

\* json.dump(info_data, f, ...) to its end, and the file closed
DumpInfo(r) ==
    /\ runs[r].pc = "dump_info"
    /\ info' = (SlotDir(r) :> runs[r].info_data) @@ info
    /\ runs' = [runs EXCEPT ![r].pc = "read_index"]
    /\ UNCHANGED <<index, packages, manifests, temp_patch, patch_zip, clock, last,
                   file_manifest, slugVars>>

\* if os.path.exists(index_path): json.load(f), and the merge in memory
ReadIndex(r) ==
    /\ runs[r].pc = "read_index"
    /\ IF index = Partial
       THEN /\ runs' = [runs EXCEPT ![r].pc = "failed"]
            /\ last' = Ended(runs[r].script, runs[r].input, 1)
       ELSE /\ runs' = [runs EXCEPT
                            ![r].pc = "open_index",
                            ![r].saw_index = index,
                            ![r].index_data =
                                IF runs[r].script = "process"
                                THEN ProcessIndex(runs[r].input)
                                ELSE PatchIndex(runs[r].input)]
            /\ UNCHANGED last
    /\ UNCHANGED <<index, info, packages, manifests, temp_patch, patch_zip, clock,
                   file_manifest, slugVars>>

\* with open(index_path, 'w', encoding='utf-8') as f:
OpenIndex(r) ==
    /\ runs[r].pc = "open_index"
    /\ index' = Partial
    /\ runs' = [runs EXCEPT ![r].pc = "dump_index", ![r].replaced_index = index]
    /\ UNCHANGED <<info, packages, manifests, temp_patch, patch_zip, clock, last,
                   file_manifest, slugVars>>

\* DumpIndex writing the merge of the file as it was when it was opened
DumpIndex_MergeAtWrite(r) ==
    /\ runs[r].pc = "dump_index"
    /\ index' = IF runs[r].replaced_index \in {NoFile, Partial}
                THEN runs[r].index_data
                ELSE [runs[r].index_data EXCEPT
                        !.patches =
                            IF runs[r].script = "process"
                            THEN ProcessMerge(runs[r].input, runs[r].replaced_index.patches,
                                              runs[r].input.targets)
                            ELSE PatchMerge(runs[r].input, runs[r].replaced_index.patches,
                                            runs[r].input.targets)]
    /\ runs' = [runs EXCEPT ![r].pc = "done"]
    /\ last' = Ended(runs[r].script, runs[r].input, 0)
    /\ IF runs[r].script = "process"
       THEN temp_patch' = NoFile /\ patch_zip' = NoFile
       ELSE UNCHANGED <<temp_patch, patch_zip>>
    /\ UNCHANGED <<info, packages, manifests, clock, file_manifest, slugVars>>

\* json.dump(index_data, f, ...) to its end, the file closed, and in
\* process.py the scratch files removed
DumpIndex(r) ==
    /\ runs[r].pc = "dump_index"
    /\ index' = runs[r].index_data
    /\ runs' = [runs EXCEPT ![r].pc = "done"]
    /\ last' = Ended(runs[r].script, runs[r].input, 0)
    /\ IF runs[r].script = "process"
       THEN temp_patch' = NoFile /\ patch_zip' = NoFile
       ELSE UNCHANGED <<temp_patch, patch_zip>>
    /\ UNCHANGED <<info, packages, manifests, clock, file_manifest, slugVars>>

\* the run is stopped where it is: its files stay as they are
Kill(r) ==
    /\ runs[r].pc \in {"read_info", "open_info", "dump_info", "read_index", "open_index",
                       "dump_index"}
    /\ runs' = [runs EXCEPT ![r].pc = "killed"]
    /\ last' = Ended(runs[r].script, runs[r].input, 137)
    /\ UNCHANGED <<index, info, packages, manifests, temp_patch, patch_zip, clock,
                   file_manifest, slugVars>>

StepNext ==
    \/ \E r \in RunIds, script \in {"process", "process_patch"}, sub \in StepSubmissions :
            StartRun(r, script, sub)
    \/ \E r \in RunIds : ReadInfo(r)
    \/ \E r \in RunIds : OpenInfo(r)
    \/ \E r \in RunIds : DumpInfo(r)
    \/ \E r \in RunIds : ReadIndex(r)
    \/ \E r \in RunIds : OpenIndex(r)
    \/ \E r \in RunIds : DumpIndex(r)
    \/ \E r \in RunIds : Kill(r)

StepSpec == Init /\ [][StepNext]_vars

(***************************************************************************)
(* Claims about the ingestion runs (checked under Spec).                   *)
(***************************************************************************)
\* the patches mapping of an index.json, empty when the file is absent
PatchesOf(file) == IF file = NoFile THEN <<>> ELSE file.patches

\* the directory, patchId and target list a run works on
RunDir(run) ==
    CASE run.script = "process" ->
            PatchDir(create_slug(run.input.patchAuthor), create_slug(run.input.patchName))
      [] run.script = "process_patch" ->
            PatchDir(slugify(run.input.patchAuthor), slugify(run.input.patchName))
      [] run.script = "process_metadata" -> MetaDir(run.input)

RunPatchId(run) ==
    CASE run.script = "process" ->
            PatchId(create_slug(run.input.patchAuthor), create_slug(run.input.patchName))
      [] run.script = "process_patch" ->
            PatchId(slugify(run.input.patchAuthor), slugify(run.input.patchName))
      [] run.script = "process_metadata" -> run.input.infoJsonContent.patchId

RunTargets(run) ==
    IF run.script = "process_metadata"
    THEN run.input.infoJsonContent.versions[1].supportedModpackVersions
    ELSE run.input.targets

RunKeys(run) == {ModpackKey(RunTargets(run)[i]) : i \in 1..Len(RunTargets(run))}

\* what a submission says the summary's author, description and version are
RunSummaryFields(run) ==
    IF run.script = "process_metadata"
    THEN [latestVersion |-> run.input.infoJsonContent.versions[1].patchVersion,
          author |-> run.input.infoJsonContent.author,
          description |-> run.input.infoJsonContent.description]
    ELSE [latestVersion |-> run.input.patchVersion, author |-> run.input.patchAuthor,
          description |-> run.input.description]

Ingestion == {"process", "process_patch"}

\* this step is a run of one of the scripts that ends with exit status 0
CompletedRun(scripts) ==
    /\ clock' = clock + 1
    /\ last'.script \in scripts
    /\ last'.exit = 0

\* C1: every target-key list of the catalog holds at most one summary per
\* patchId, after any mix of runs of the three scripts.
C1_OneSummaryPerPatch ==
    \A k \in DOMAIN PatchesOf(index) :
        \A i, j \in 1..Len(index.patches[k]) :
            index.patches[k][i].patchId = index.patches[k][j].patchId => i = j

\* a resubmission whose target list names one key twice, into a list that
\* holds another patch as well
C1_Witness ==
    /\ last.script \in Ingestion /\ last.exit = 0
    /\ last.input.targets = TargetsAA
    /\ Len(info[RunDir(last)].versions) >= 2
    /\ Len(index.patches[<<"c", ":", "A">>]) >= 2

\* C2: a normal ingestion run creates info.json with one version entry when
\* it is absent, and otherwise puts the new entry at index 0 in front of the
\* earlier entries, which stay as they were; no other info.json changes.
C2_VersionsInsertOnly ==
    [][CompletedRun(Ingestion) =>
        LET d == RunDir(last') IN
        /\ d \in DOMAIN info'
        /\ info'[d].versions[1].patchVersion = last'.input.patchVersion
        /\ info'[d].versions[1].releaseDate[1] = clock'
        /\ IF d \in DOMAIN info
           THEN Tail(info'[d].versions) = info[d].versions
           ELSE Len(info'[d].versions) = 1
        /\ \A e \in DOMAIN info \ {d} : e \in DOMAIN info' /\ info'[e] = info[e]]_vars

\* three runs for one patch, the last resubmitting the version of the one
\* before: three entries, newest first
C2_Witness ==
    /\ last.script \in Ingestion /\ last.exit = 0
    /\ Len(info[RunDir(last)].versions) = 3
    /\ \A i \in 1..3 : info[RunDir(last)].versions[i].releaseDate[1] = 4 - i
    /\ info[RunDir(last)].versions[1].patchVersion = info[RunDir(last)].versions[2].patchVersion

\* C3: when a summary with the submission's patchId exists under a target
\* key, the merge sets its latestVersion, author and description to the
\* submission's and leaves its other fields, in each of the three scripts.
C3_ExistingSummaryUpdated ==
    [][CompletedRun(Ingestion \cup {"process_metadata"}) =>
        \A k \in RunKeys(last') \cap DOMAIN PatchesOf(index) :
            \A i \in 1..Len(index.patches[k]) :
                index.patches[k][i].patchId = RunPatchId(last') =>
                    index'.patches[k][i] =
                        [index.patches[k][i] EXCEPT
                            !.latestVersion = RunSummaryFields(last').latestVersion,
                            !.author = RunSummaryFields(last').author,
                            !.description = RunSummaryFields(last').description]]_vars

\* C4: a metadata-correction run on an existing info.json leaves its
\* versions list as it was.
C4_MetadataKeepsVersions ==
    [][(CompletedRun({"process_metadata"}) /\ RunDir(last') \in DOMAIN info) =>
        info'[RunDir(last')].versions = info[RunDir(last')].versions]_vars

\* C5: a normal ingestion run on an existing info.json leaves every header
\* field (all but versions) as it was.
C5_HeaderKept ==
    [][(CompletedRun(Ingestion) /\ RunDir(last') \in DOMAIN info) =>
        [info'[RunDir(last')] EXCEPT !.versions = <<>>]
            = [info[RunDir(last')] EXCEPT !.versions = <<>>]]_vars

\* a later submission with another description and the author written
\* another way, on a record an ingestion run created
C5_Witness ==
    /\ last.script \in Ingestion /\ last.exit = 0
    /\ Len(info[RunDir(last)].versions) >= 2
    /\ info[RunDir(last)].author \in {p.author : p \in Patches} \ {last.input.patchAuthor}
    /\ info[RunDir(last)].description # last.input.description
    /\ info[RunDir(last)].patchId = RunPatchId(last)

\* C6: a catalog merge for patch P with targets T keeps every key, keeps the
\* lists of the keys not derived from T, keeps every summary of another
\* patch and the order of the summaries present, and adds at most one
\* summary, P's, at the end of a list.
C6_MergeFrame ==
    [][CompletedRun(Ingestion \cup {"process_metadata"}) =>
        LET old == PatchesOf(index)
            new == index'.patches
            OldLen(k) == IF k \in DOMAIN old THEN Len(old[k]) ELSE 0
        IN  /\ DOMAIN new = DOMAIN old \cup RunKeys(last')
            /\ \A k \in DOMAIN old \ RunKeys(last') : new[k] = old[k]
            /\ \A k \in DOMAIN old :
                 /\ Len(new[k]) >= Len(old[k])
                 /\ \A i \in 1..Len(old[k]) :
                      /\ new[k][i].patchId = old[k][i].patchId
                      /\ old[k][i].patchId # RunPatchId(last') => new[k][i] = old[k][i]
            /\ \A k \in DOMAIN new :
                 /\ Len(new[k]) <= OldLen(k) + 1
                 /\ Len(new[k]) = OldLen(k) + 1 =>
                      new[k][Len(new[k])].patchId = RunPatchId(last')]_vars

\* a merge into a list that holds another patch's summary before P's, with a
\* list under a key that is not among P's targets
C6_Witness ==
    /\ last.script \in Ingestion \cup {"process_metadata"} /\ last.exit = 0
    /\ \E k \in RunKeys(last) :
         /\ Len(index.patches[k]) >= 2
         /\ index.patches[k][1].patchId # RunPatchId(last)
    /\ DOMAIN index.patches \ RunKeys(last) # {}

\* C7: running a script again on the submission it has just ingested leaves
\* the patches mapping of the catalog as the first run left it; every run
\* stamps lastUpdated with its own time.
C7_MergeIdempotent ==
    [][CompletedRun(Ingestion \cup {"process_metadata"}) =>
        /\ index'.lastUpdated[1] = clock'
        /\ (last.exit = 0 /\ last.script = last'.script /\ last.input = last'.input) =>
              index'.patches = index.patches]_vars

\* the same submission ingested twice in a row by the same script, into a
\* catalog that held another patch
C7_Witness ==
    /\ last.script \in Ingestion /\ last.exit = 0
    /\ last.prev.exit = 0 /\ last.prev.script = last.script /\ last.prev.input = last.input
    /\ \E k \in RunKeys(last) : Len(index.patches[k]) >= 2
    /\ index.lastUpdated[1] = 3

\* the top level of the archive is the single directory overrides
OnlyOverridesDir(archive) ==
    /\ {e.name[1] : e \in archive} = {"overrides"}
    /\ \A e \in archive : Len(e.name) = 1 => e.isDir

\* C10: process.py and process_patch.py reject every archive whose top level
\* is not exactly the directory overrides, and extract nothing from it.
C10_RejectsBadLayout ==
    (last.script \in Ingestion /\ ~OnlyOverridesDir(last.input.archive)) =>
        /\ last.exit = 1
        /\ temp_patch \in {NoFile, Present({})}

(***************************************************************************)
(* Claims about the slug functions (checked under SlugSpec).               *)
(***************************************************************************)
\* ^[a-z0-9]+(-[a-z0-9]+)*$ or empty
MatchesSlugPattern(s) ==
    /\ \A i \in 1..Len(s) : s[i] \in LowerLetters \cup Digits \cup {"-"}
    /\ s # <<>> => s[1] # "-" /\ s[Len(s)] # "-"
    /\ \A i \in 1..(Len(s) - 1) : ~(s[i] = "-" /\ s[i + 1] = "-")

\* C8: slug normalization is idempotent: applying create_slug (slugify) to
\* its own output returns that output.
C8_SlugIdempotent ==
    /\ slug_fn = "create_slug" => create_slug(slug_out) = slug_out
    /\ slug_fn = "slugify" => slugify(slug_out) = slug_out

\* C9: the output of create_slug and of slugify is empty or matches
\* ^[a-z0-9]+(-[a-z0-9]+)*$.
C9_SlugWellFormed ==
    slug_fn \in {"create_slug", "slugify"} => MatchesSlugPattern(slug_out)

(***************************************************************************)
(* Claims about rejected and failing runs.                                 *)
(***************************************************************************)
\* this step is a run of one of the scripts, however it ends
Run(scripts) ==
    /\ clock' = clock + 1
    /\ last'.script \in scripts

\* C11: an ingestion run on an archive whose override tree holds no regular
\* file fails, and writes no package, no version entry and no summary.
C11_EmptyTreeRejected ==
    [][(Run(Ingestion) /\ OverrideFiles(last'.input.archive) = {})
        => /\ last'.exit # 0
           /\ UNCHANGED <<index, info, packages>>]_vars

AllScripts == Ingestion \cup {"process_metadata"}

\* C12: a run that ends in a fatal error leaves info.json, index.json and
\* the package as they were before it; none of them is updated while
\* index.json is not.
C12_FailedRunWritesNothing ==
    [][(Run(AllScripts) /\ last'.exit # 0) => UNCHANGED <<index, info, packages>>]_vars

\* the author slug and the patch slug a run derives
RunSlugs(run) ==
    CASE run.script = "process" ->
            <<create_slug(run.input.patchAuthor), create_slug(run.input.patchName)>>
      [] run.script = "process_patch" ->
            <<slugify(run.input.patchAuthor), slugify(run.input.patchName)>>
      [] run.script = "process_metadata" ->
            <<Lower(run.input.issue_author), create_slug(run.input.patchName)>>

\* a patchId with an empty author or patch segment
HasEmptySegment(patch_id) ==
    patch_id = <<>> \/ Head(patch_id) = "/" \/ patch_id[Len(patch_id)] = "/"

\* C13: a run whose author slug or patch slug is empty aborts before it
\* writes anything, and no info.json carries a patchId with an empty
\* segment.
C13_EmptySlugAborts ==
    [][(Run(AllScripts) /\ <<>> \in {RunSlugs(last')[1], RunSlugs(last')[2]})
        => /\ last'.exit # 0
           /\ UNCHANGED <<index, info, packages, manifests>>
           /\ \A d \in DOMAIN info' : ~HasEmptySegment(info'[d].patchId)]_vars

\* C14: after an ingestion run that fails at validation or extraction the
\* scratch directory temp_patch does not exist.
C14_ScratchGoneAfterFailure ==
    (last.script \in Ingestion /\ last.exit # 0) => temp_patch = NoFile

(***************************************************************************)
(* Claims about the package and its manifest.                              *)
(***************************************************************************)
\* C15: in every successful ingestion run the digest recorded in the
\* downloads of the new version entry is the digest of the package file
\* that run wrote, in process.py and in process_patch.py.
C15_DigestOfWrittenPackage ==
    [][CompletedRun(Ingestion) =>
        LET recorded == info'[RunDir(last')].versions[1].downloads[1].sha1
        IN  \E path \in DOMAIN packages' :
                /\ path[1] = RunDir(last')
                /\ last'.script = "process" => path = HtpPath(last'.input)
                /\ recorded = calculate_sha1(packages'[path])]_vars

\* C16: the package process.py writes has translation-manifest.json as its
\* first entry, and its other entries are the names overrides/<path> of the
\* file records of the manifest in it, one entry per record and one record
\* per entry.
C16_PackageEntries ==
    (last.script = "process" /\ last.exit = 0) =>
        LET htp == packages[HtpPath(last.input)]
            records == htp[1].json.fileManifest
        IN  /\ htp[1].arcname = <<"translation-manifest.json">>
            /\ \A i \in 2..Len(htp) :
                 \E r \in records : htp[i].arcname = <<"overrides">> \o r.path
            /\ \A r \in records :
                 Cardinality({i \in 2..Len(htp) :
                                htp[i].arcname = <<"overrides">> \o r.path}) = 1
            /\ Len(htp) = 1 + Cardinality(records)

\* a package of two files, written over one made from an archive with a
\* file beside overrides/
C16_Witness ==
    /\ last.script = "process" /\ last.exit = 0
    /\ last.input.archive = TwoFiles
    /\ Len(packages[HtpPath(last.input)]) = 3
    /\ last.prev.script = "process" /\ last.prev.exit = 0
    /\ last.prev.input.archive = StrayArchive

\* the regular files of the override tree of an archive
RegularFiles(archive) ==
    {e \in archive : ~e.isDir /\ Len(e.name) >= 2 /\ e.name[1] = "overrides"}

\* C17: the manifest an ingestion run builds holds one record for each
\* regular file of the override tree and no other, with operation overwrite,
\* path equal to targetPath and the digest of the file's bytes; against the
\* manifest of the run before, a file with the same bytes has the same
\* record and a file with other bytes another digest.
C17_ManifestOfTree ==
    [][CompletedRun(Ingestion) =>
        LET files == RegularFiles(last'.input.archive)
            before == IF last.script \in Ingestion /\ last.exit = 0
                      THEN RegularFiles(last.input.archive) ELSE {}
        IN  /\ \A e \in files :
                 Cardinality({r \in file_manifest' : r.path = Tail(e.name)}) = 1
            /\ \A r \in file_manifest' :
                 /\ r.operation = "overwrite"
                 /\ r.targetPath = r.path
                 /\ \E e \in files :
                      r.path = Tail(e.name) /\ r.patchedSha1 = calculate_sha1(e.bytes)
            /\ \A e \in files, b \in before :
                 e.name = b.name =>
                    \A r \in file_manifest', q \in file_manifest :
                        (r.path = Tail(e.name) /\ q.path = r.path) =>
                            (r = q <=> e.bytes = b.bytes)]_vars

\* the two-file tree ingested after the same tree with other bytes in one
\* of the files
C17_Witness ==
    /\ last.script \in Ingestion /\ last.exit = 0
    /\ last.input.archive = TwoFilesChanged
    /\ last.prev.script \in Ingestion /\ last.prev.exit = 0
    /\ last.prev.input.archive = TwoFiles
    /\ Cardinality(file_manifest) = 2

(***************************************************************************)
(* Claims about the references between the catalog and the records.        *)
(***************************************************************************)
\* C20: every summary of the catalog has infoPath
\* ./patches/{patchId}/info.json, and the info.json at that path exists and
\* carries the same patchId, also when process_metadata.py wrote it.
C20_InfoPathResolves ==
    \A k \in DOMAIN PatchesOf(index) :
        \A i \in 1..Len(index.patches[k]) :
            LET s == index.patches[k][i]
            IN  /\ s.infoPath = InfoPath(s.patchId)
                /\ DirNamed(s.patchId) \in DOMAIN info
                /\ "patchId" \in DOMAIN info[DirNamed(s.patchId)]
                /\ info[DirNamed(s.patchId)].patchId = s.patchId

(***************************************************************************)
(* Claims about interrupted and overlapping runs (checked under StepSpec). *)
(***************************************************************************)
\* C18: a run interrupted at any step leaves no persisted file in a partial
\* state: index.json or an info.json holds a partial value only while a run
\* is in the middle of writing it.
C18_NoPartialFile ==
    /\ index = Partial => \E r \in RunIds : runs[r].pc = "dump_index"
    /\ \A d \in DOMAIN info :
         info[d] = Partial => \E r \in RunIds : runs[r].pc = "dump_info" /\ SlotDir(r) = d

\* the patchIds of the summaries an index.json holds under key k
IdsUnder(file, k) ==
    IF file \in {NoFile, Partial} THEN {}
    ELSE IF k \notin DOMAIN file.patches THEN {}
         ELSE {file.patches[k][i].patchId : i \in 1..Len(file.patches[k])}

\* the versions an info.json holds
VersionsOf(file) == IF file \in {NoFile, Partial} THEN <<>> ELSE file.versions

\* C19: no lock is taken around read, merge and write.  The index.json a
\* run writes holds its own summary and, of the others, those of the file it
\* read and no more: when no other run wrote the file in between, every
\* summary that was there is kept; a summary another run added in between
\* is gone.  The same holds of the version entries of info.json.
C19_LostUpdate ==
    [][\A r \in RunIds :
        /\ (runs[r].pc = "dump_index" /\ runs'[r].pc = "done") =>
              \A k \in RunKeys(runs[r]) :
                  /\ RunPatchId(runs[r]) \in IdsUnder(index', k)
                  /\ runs[r].replaced_index = runs[r].saw_index =>
                        IdsUnder(runs[r].replaced_index, k) \subseteq IdsUnder(index', k)
                  /\ IdsUnder(index', k) \subseteq
                        IdsUnder(runs[r].saw_index, k) \cup {RunPatchId(runs[r])}
        /\ (runs[r].pc = "dump_info" /\ runs'[r].pc = "read_index") =>
              /\ info'[SlotDir(r)].versions[1].patchVersion = runs[r].input.patchVersion
              /\ Tail(info'[SlotDir(r)].versions) = VersionsOf(runs[r].saw_info)]_vars

\* two runs for two patches ended, each having read index.json before the
\* other wrote it: the file is what one wrote and lacks the other's summary
C19_Witness ==
    \E r, o \in RunIds :
        /\ runs[r].pc = "done" /\ runs[o].pc = "done"
        /\ RunPatchId(runs[r]) # RunPatchId(runs[o])
        /\ runs[r].saw_index = NoFile /\ runs[o].saw_index = NoFile
        /\ index = runs[r].index_data
        /\ \E k \in RunKeys(runs[o]) :
             /\ RunPatchId(runs[o]) \in IdsUnder(runs[o].index_data, k)
             /\ RunPatchId(runs[o]) \notin IdsUnder(index, k)

(***************************************************************************)
(* Claims about the agreement of catalog, records and packages.            *)
(***************************************************************************)
\* C21: for every summary under every target key, latestVersion is the
\* patchVersion of the entry at index 0 of the versions of the patch's
\* info.json, also for a key that a later version of the patch no longer
\* names.
C21_LatestVersionAgrees ==
    \A k \in DOMAIN PatchesOf(index) :
        \A i \in 1..Len(index.patches[k]) :
            LET s == index.patches[k][i]
                d == DirNamed(s.patchId)
            IN  (d \in DOMAIN info /\ VersionsOf(info[d]) # <<>>) =>
                    s.latestVersion = info[d].versions[1].patchVersion

\* C22: create_slug and slugify return the same slug for every text, so a
\* submission gets the same patchId and directory whichever script ingests
\* it, and lowering the text as process_metadata.py does gives the same
\* author segment.
C22_SameSlugEveryScript ==
    /\ slug_fn = "create_slug" => slug_out = slugify(slug_in)
    /\ slug_fn = "slugify" => slug_out = create_slug(slug_in)
    /\ slug_fn \in {"create_slug", "slugify"} => slug_out = Lower(slug_in)

\* C23: every version entry that process.py wrote records the digest of the
\* package that is at the entry's download path now, also after the same
\* version was submitted again with other contents.
C23_DigestOfCurrentPackage ==
    \A d \in DOMAIN info :
        \A i \in 1..Len(VersionsOf(info[d])) :
            LET downloads == info[d].versions[i].downloads
            IN  (downloads # <<>> /\ downloads[1].name = "GitHub Raw") =>
                    /\ downloads[1].url \in DOMAIN packages
                    /\ downloads[1].sha1 = calculate_sha1(packages[downloads[1].url])

\* a catalog key with an empty type part or an empty name part
HasEmptyPart(key) == key = <<>> \/ Head(key) = ":" \/ key[Len(key)] = ":"

\* C24: a process_metadata.py run skips every target whose type or name is
\* missing or empty: it creates no catalog key with an empty part and
\* changes the list of none.
C24_BlankTargetSkipped ==
    [][Run({"process_metadata"}) =>
        \A k \in DOMAIN PatchesOf(index') :
            HasEmptyPart(k) =>
                /\ k \in DOMAIN PatchesOf(index)
                /\ index'.patches[k] = index.patches[k]]_vars

=============================================================================
